---- MODULE Spec2Model ----
(***************************************************************************)
(* Model of import_export_tool.py: the export path (windowed pagination,   *)
(* retry, type inference, CSV sink) and the import path (CSV source, typed *)
(* decode, per-entity replay with retry) of the ThingsBoard telemetry      *)
(* migrator, together with main()'s login and dispatch.                    *)
(*                                                                         *)
(* Texts are sequences of one-character strings, so that the conversions   *)
(* (str.lower, int(), float(), json.loads, str()/repr()) are computed on   *)
(* characters as Python computes them.  Python objects are records tagged  *)
(* by the field ty.                                                        *)
(***************************************************************************)
EXTENDS Integers, Sequences, FiniteSets, TLC

(***************************************************************************)
(* Characters and texts                                                    *)
(***************************************************************************)
DigitChars == <<"0", "1", "2", "3", "4", "5", "6", "7", "8", "9">>

UpperChars == <<"A", "B", "C", "D", "E", "F", "G", "H", "I", "J", "K", "L", "M",
                "N", "O", "P", "Q", "R", "S", "T", "U", "V", "W", "X", "Y", "Z">>

LowerChars == <<"a", "b", "c", "d", "e", "f", "g", "h", "i", "j", "k", "l", "m",
                "n", "o", "p", "q", "r", "s", "t", "u", "v", "w", "x", "y", "z">>

IsDigit(c) == \E i \in 1..10 : DigitChars[i] = c

DigitVal(c) == (CHOOSE i \in 1..10 : DigitChars[i] = c) - 1

AllDigits(s) == \A i \in 1..Len(s) : IsDigit(s[i])

\* str.lower() of one character, and of a text
lower_char(c) ==
    IF \E i \in 1..26 : UpperChars[i] = c
    THEN LowerChars[CHOOSE i \in 1..26 : UpperChars[i] = c]
    ELSE c

str_lower(s) == [i \in 1..Len(s) |-> lower_char(s[i])]

\* value.replace("'", '"')
replace_quotes(s) == [i \in 1..Len(s) |-> IF s[i] = "'" THEN "\"" ELSE s[i]]

StartsWith(s, p) == Len(s) >= Len(p) /\ SubSeq(s, 1, Len(p)) = p

Drop(s, n) == SubSeq(s, n + 1, Len(s))

RECURSIVE lstrip(_)
lstrip(s) == IF s # <<>> /\ s[1] = " " THEN lstrip(Tail(s)) ELSE s

RECURSIVE rstrip(_)
rstrip(s) == IF s # <<>> /\ s[Len(s)] = " " THEN rstrip(SubSeq(s, 1, Len(s) - 1)) ELSE s

\* the whitespace stripping int() and float() apply to their argument
strip(s) == rstrip(lstrip(s))

RECURSIVE DigitsVal(_)
DigitsVal(s) ==
    IF s = <<>> THEN 0
    ELSE DigitsVal(SubSeq(s, 1, Len(s) - 1)) * 10 + DigitVal(s[Len(s)])

RECURSIVE NatToText(_)
NatToText(n) ==
    IF n < 10 THEN <<DigitChars[n + 1]>>
    ELSE NatToText(n \div 10) \o <<DigitChars[(n % 10) + 1]>>

RECURSIVE rstrip_zeros(_)
rstrip_zeros(s) ==
    IF s # <<>> /\ s[Len(s)] = "0" THEN rstrip_zeros(SubSeq(s, 1, Len(s) - 1)) ELSE s

(***************************************************************************)
(* Python objects                                                          *)
(***************************************************************************)
PyNone == [ty |-> "none"]
PyBool(b) == [ty |-> "bool", b |-> b]
PyInt(n) == [ty |-> "int", n |-> n]
\* a finite float is kept as its decimal expansion: sign, integer part and
\* fraction digits without trailing zeros (exponent notation is outside the
\* alphabet of the texts of this model)
PyFloat(neg, ip, fr) == [ty |-> "float", k |-> "fin", neg |-> neg, ip |-> ip, fr |-> fr]
PyInf(neg) == [ty |-> "float", k |-> "inf", neg |-> neg, ip |-> 0, fr |-> <<>>]
PyNaN == [ty |-> "float", k |-> "nan", neg |-> FALSE, ip |-> 0, fr |-> <<>>]
PyStr(s) == [ty |-> "str", s |-> s]
PyList(items) == [ty |-> "list", items |-> items]
\* a dict keeps insertion order: a sequence of <<key text, value>> pairs
PyDict(pairs) == [ty |-> "dict", pairs |-> pairs]

\* the result of a call that may raise
Ok(v) == [ok |-> TRUE, v |-> v]
Raised == [ok |-> FALSE, v |-> PyNone]

IsNumber(v) == v.ty \in {"bool", "int"} \/ (v.ty = "float" /\ v.k = "fin")

\* a number as <<is negative, integer part, fraction digits>>; zero has no sign
NumKey(v) ==
    IF v.ty = "bool" THEN <<FALSE, IF v.b THEN 1 ELSE 0, <<>>>>
    ELSE IF v.ty = "int" THEN <<v.n < 0, IF v.n < 0 THEN -v.n ELSE v.n, <<>>>>
    ELSE <<v.neg /\ ~(v.ip = 0 /\ v.fr = <<>>), v.ip, v.fr>>

\* Python's ==
RECURSIVE PyEq(_, _)
PyEq(a, b) ==
    IF IsNumber(a) /\ IsNumber(b) THEN NumKey(a) = NumKey(b)
    ELSE IF a.ty # b.ty THEN FALSE
    ELSE IF a.ty = "float" THEN a.k = "inf" /\ b.k = "inf" /\ a.neg = b.neg
    ELSE IF a.ty = "none" THEN TRUE
    ELSE IF a.ty = "str" THEN a.s = b.s
    ELSE IF a.ty = "list"
         THEN /\ Len(a.items) = Len(b.items)
              /\ \A i \in 1..Len(a.items) : PyEq(a.items[i], b.items[i])
    ELSE /\ Len(a.pairs) = Len(b.pairs)
         /\ \A i \in 1..Len(a.pairs) :
               \E j \in 1..Len(b.pairs) :
                  /\ a.pairs[i][1] = b.pairs[j][1]
                  /\ PyEq(a.pairs[i][2], b.pairs[j][2])

(***************************************************************************)
(* int(), float(), repr(), str()                                           *)
(***************************************************************************)
\* int(text): optional surrounding blanks, optional sign, decimal digits;
\* ValueError otherwise
py_int(text) ==
    LET s == strip(text)
        signed == s # <<>> /\ s[1] \in {"+", "-"}
        body == IF signed THEN Tail(s) ELSE s
    IN  IF body # <<>> /\ AllDigits(body)
        THEN Ok(PyInt(IF signed /\ s[1] = "-" THEN -DigitsVal(body) ELSE DigitsVal(body)))
        ELSE Raised

\* float(text): optional surrounding blanks, optional sign, then inf, infinity
\* or nan in any case, or digits with at most one point; ValueError otherwise
py_float(text) ==
    LET s == strip(text)
        signed == s # <<>> /\ s[1] \in {"+", "-"}
        neg == signed /\ s[1] = "-"
        body == IF signed THEN Tail(s) ELSE s
        low == str_lower(body)
        dots == {i \in 1..Len(body) : body[i] = "."}
        dot == IF dots = {} THEN Len(body) + 1 ELSE CHOOSE i \in dots : TRUE
        ipart == SubSeq(body, 1, dot - 1)
        fpart == SubSeq(body, dot + 1, Len(body))
    IN  IF low \in {<<"i", "n", "f">>, <<"i", "n", "f", "i", "n", "i", "t", "y">>}
        THEN Ok(PyInf(neg))
        ELSE IF low = <<"n", "a", "n">> THEN Ok(PyNaN)
        ELSE IF /\ Cardinality(dots) <= 1
                /\ AllDigits(ipart) /\ AllDigits(fpart)
                /\ Len(ipart) + Len(fpart) > 0
        THEN Ok(PyFloat(neg, DigitsVal(ipart), rstrip_zeros(fpart)))
        ELSE Raised

int_repr(n) == IF n < 0 THEN <<"-">> \o NatToText(-n) ELSE NatToText(n)

float_repr(v) ==
    IF v.k = "nan" THEN <<"n", "a", "n">>
    ELSE IF v.k = "inf"
    THEN (IF v.neg THEN <<"-">> ELSE <<>>) \o <<"i", "n", "f">>
    ELSE (IF v.neg THEN <<"-">> ELSE <<>>) \o NatToText(v.ip) \o <<".">>
         \o (IF v.fr = <<>> THEN <<"0">> ELSE v.fr)

RECURSIVE py_repr(_)
RECURSIVE repr_items(_)
RECURSIVE repr_pairs(_)
\* repr(v); a str inside a container is rendered in single quotes
py_repr(v) ==
    IF v.ty = "none" THEN <<"N", "o", "n", "e">>
    ELSE IF v.ty = "bool"
    THEN (IF v.b THEN <<"T", "r", "u", "e">> ELSE <<"F", "a", "l", "s", "e">>)
    ELSE IF v.ty = "int" THEN int_repr(v.n)
    ELSE IF v.ty = "float" THEN float_repr(v)
    ELSE IF v.ty = "str" THEN <<"'">> \o v.s \o <<"'">>
    ELSE IF v.ty = "list" THEN <<"[">> \o repr_items(v.items) \o <<"]">>
    ELSE <<"{">> \o repr_pairs(v.pairs) \o <<"}">>

repr_items(items) ==
    IF items = <<>> THEN <<>>
    ELSE py_repr(items[1])
         \o (IF Len(items) > 1 THEN <<",", " ">> \o repr_items(Tail(items)) ELSE <<>>)

repr_pairs(pairs) ==
    IF pairs = <<>> THEN <<>>
    ELSE <<"'">> \o pairs[1][1] \o <<"'", ":", " ">> \o py_repr(pairs[1][2])
         \o (IF Len(pairs) > 1 THEN <<",", " ">> \o repr_pairs(Tail(pairs)) ELSE <<>>)

\* str(v)
py_str(v) == IF v.ty = "str" THEN v.s ELSE py_repr(v)

\* the text csv.writer puts in a cell: None is written as the empty text,
\* everything else as str()
csv_cell(v) == IF v.ty = "none" THEN <<>> ELSE py_str(v)

(***************************************************************************)
(* json.loads, for JSON without string escapes and without exponents       *)
(***************************************************************************)
Fail == [ok |-> FALSE, v |-> PyNone, rest |-> <<>>]
Got(v, rest) == [ok |-> TRUE, v |-> v, rest |-> rest]

RECURSIVE DigitRun(_)
\* the length of the longest prefix of digits
DigitRun(s) == IF s # <<>> /\ IsDigit(s[1]) THEN 1 + DigitRun(Tail(s)) ELSE 0

\* a later duplicate key replaces the value and keeps the first position
dict_put(pairs, k, v) ==
    IF \E i \in 1..Len(pairs) : pairs[i][1] = k
    THEN [i \in 1..Len(pairs) |-> IF pairs[i][1] = k THEN <<k, v>> ELSE pairs[i]]
    ELSE Append(pairs, <<k, v>>)

\* s starts with a double quote
json_string(s) ==
    LET t == Tail(s)
        q == {i \in 1..Len(t) : t[i] = "\""}
    IN  IF q = {} THEN Fail
        ELSE LET e == CHOOSE i \in q : \A j \in q : i <= j
             IN  Got(PyStr(SubSeq(t, 1, e - 1)), Drop(t, e))

\* -?(0|[1-9][0-9]*)(\.[0-9]+)? ; s starts with a digit or a minus sign
json_number(s) ==
    LET neg == s[1] = "-"
        b == IF neg THEN Tail(s) ELSE s
    IN  IF b = <<>> \/ ~IsDigit(b[1]) THEN Fail
        ELSE LET ilen == IF b[1] = "0" THEN 1 ELSE DigitRun(b)
                 ip == SubSeq(b, 1, ilen)
                 r1 == Drop(b, ilen)
                 hasfrac == Len(r1) >= 2 /\ r1[1] = "." /\ IsDigit(r1[2])
                 flen == IF hasfrac THEN DigitRun(Tail(r1)) ELSE 0
                 fp == SubSeq(r1, 2, 1 + flen)
             IN  IF hasfrac
                 THEN Got(PyFloat(neg, DigitsVal(ip), rstrip_zeros(fp)), Drop(r1, 1 + flen))
                 ELSE Got(PyInt(IF neg THEN -DigitsVal(ip) ELSE DigitsVal(ip)), r1)

JsonTrue == <<"t", "r", "u", "e">>
JsonFalse == <<"f", "a", "l", "s", "e">>
JsonNull == <<"n", "u", "l", "l">>
JsonNaN == <<"N", "a", "N">>
JsonInfinity == <<"I", "n", "f", "i", "n", "i", "t", "y">>

RECURSIVE json_value(_)
RECURSIVE json_items(_, _)
RECURSIVE json_members(_, _)
\* one JSON value at the start of s (blanks before it already skipped)
json_value(s) ==
    IF s = <<>> THEN Fail
    ELSE IF s[1] = "\"" THEN json_string(s)
    ELSE IF s[1] = "{"
    THEN LET t == lstrip(Tail(s))
         IN  IF t # <<>> /\ t[1] = "}" THEN Got(PyDict(<<>>), Tail(t))
             ELSE json_members(t, <<>>)
    ELSE IF s[1] = "["
    THEN LET t == lstrip(Tail(s))
         IN  IF t # <<>> /\ t[1] = "]" THEN Got(PyList(<<>>), Tail(t))
             ELSE json_items(t, <<>>)
    ELSE IF StartsWith(s, JsonNull) THEN Got(PyNone, Drop(s, 4))
    ELSE IF StartsWith(s, JsonTrue) THEN Got(PyBool(TRUE), Drop(s, 4))
    ELSE IF StartsWith(s, JsonFalse) THEN Got(PyBool(FALSE), Drop(s, 5))
    ELSE IF IsDigit(s[1]) \/ (s[1] = "-" /\ Len(s) >= 2 /\ IsDigit(s[2]))
    THEN json_number(s)
    ELSE IF StartsWith(s, JsonNaN) THEN Got(PyNaN, Drop(s, 3))
    ELSE IF StartsWith(s, JsonInfinity) THEN Got(PyInf(FALSE), Drop(s, 8))
    ELSE IF StartsWith(s, <<"-">> \o JsonInfinity) THEN Got(PyInf(TRUE), Drop(s, 9))
    ELSE Fail

\* value (, value)* ]
json_items(s, acc) ==
    LET r == json_value(s)
    IN  IF ~r.ok THEN Fail
        ELSE LET t == lstrip(r.rest)
             IN  IF t = <<>> THEN Fail
                 ELSE IF t[1] = "]" THEN Got(PyList(Append(acc, r.v)), Tail(t))
                 ELSE IF t[1] = "," THEN json_items(lstrip(Tail(t)), Append(acc, r.v))
                 ELSE Fail

\* "key" : value (, "key" : value)* }
json_members(s, acc) ==
    IF s = <<>> \/ s[1] # "\"" THEN Fail
    ELSE LET k == json_string(s)
         IN  IF ~k.ok THEN Fail
             ELSE LET t == lstrip(k.rest)
                  IN  IF t = <<>> \/ t[1] # ":" THEN Fail
                      ELSE LET r == json_value(lstrip(Tail(t)))
                           IN  IF ~r.ok THEN Fail
                               ELSE LET u == lstrip(r.rest)
                                        acc2 == dict_put(acc, k.v.s, r.v)
                                    IN  IF u = <<>> THEN Fail
                                        ELSE IF u[1] = "}" THEN Got(PyDict(acc2), Tail(u))
                                        ELSE IF u[1] = ","
                                        THEN json_members(lstrip(Tail(u)), acc2)
                                        ELSE Fail

\* json.loads(text): one value, blanks around it, nothing else;
\* JSONDecodeError otherwise
json_loads(text) ==
    LET r == json_value(lstrip(text))
    IN  IF r.ok /\ lstrip(r.rest) = <<>> THEN Ok(r.v) ELSE Raised

(***************************************************************************)
(* The type codec                                                          *)
(***************************************************************************)
\* infer_type_and_convert(value): the typed value and its tag
infer_type_and_convert(value) ==
    IF str_lower(value) = JsonTrue THEN [v |-> PyBool(TRUE), tag |-> "boolean"]
    ELSE IF str_lower(value) = JsonFalse THEN [v |-> PyBool(FALSE), tag |-> "boolean"]
    ELSE IF py_int(value).ok THEN [v |-> py_int(value).v, tag |-> "int"]
    ELSE IF py_float(value).ok THEN [v |-> py_float(value).v, tag |-> "double"]
    ELSE IF json_loads(replace_quotes(value)).ok
    THEN [v |-> json_loads(replace_quotes(value)).v, tag |-> "json"]
    ELSE [v |-> PyStr(value), tag |-> "string"]

\* the import side's conversion of a cell under its persisted tag: a value,
\* "raise" (ValueError out of int() or float()), or what the handler of
\* json.JSONDecodeError does
decode_with(value, value_type, on_json_error) ==
    IF value_type = "boolean"
    THEN [res |-> "value", v |-> PyBool(str_lower(value) = JsonTrue)]
    ELSE IF value_type = "int"
    THEN (IF py_int(value).ok THEN [res |-> "value", v |-> py_int(value).v]
          ELSE [res |-> "raise", v |-> PyNone])
    ELSE IF value_type = "double"
    THEN (IF py_float(value).ok THEN [res |-> "value", v |-> py_float(value).v]
          ELSE [res |-> "raise", v |-> PyNone])
    ELSE IF value_type = "json"
    THEN (IF json_loads(replace_quotes(value)).ok
          THEN [res |-> "value", v |-> json_loads(replace_quotes(value)).v]
          ELSE [res |-> on_json_error, v |-> PyNone])
    ELSE [res |-> "value", v |-> PyStr(value)]

\* as convert_value, with the JSONDecodeError left to propagate
convert_value_reraise(value, value_type) == decode_with(value, value_type, "raise")

\* lines 134-146: a json cell that does not parse is logged and the record
\* is dropped ("drop": the loop continues with the next row)
convert_value(value, value_type) == decode_with(value, value_type, "drop")

(***************************************************************************)
(* Bounds of the model                                                     *)
(***************************************************************************)
\* windows one device may iterate before the model stops following it (the
\* loop of export_timeseries has no bound of its own when timeLimit <= 0)
MaxWindows == 3
\* data rows of an import file
MaxRows == 3
\* length of the generated texts given to the codec
MaxTextLen == 3
\* data rows of a file that is imported twice
MaxReplayRows == 2

(***************************************************************************)
(* The remote service                                                      *)
(***************************************************************************)
\* Python's None, as the value of device_id
None == "None"

\* the tenant's devices: name -> id
DeviceIds == [sensor1 |-> "id1", sensor2 |-> "id2", blank |-> "id3"]

Point(ts, value) == [ts |-> ts, value |-> value]

\* the stored series of a device's key, in ascending ts; value is the text
\* the REST API returns
RemoteSeries(id, key) ==
    IF id = "id1" /\ key = "temp"
    THEN << Point(60000, <<"2", "3", ".", "5">>), Point(90000, <<"7">>),
            Point(130000, <<"t", "r", "u", "e">>) >>
    ELSE IF id = "id1" /\ key = "hum"
    THEN << Point(70000, <<"{", "'", "a", "'", ":", " ", "1", "}">>),
            Point(120000, <<"n", "a", "n">>) >>
    ELSE IF id = "id2" /\ key = "temp"
    THEN << Point(100000, <<"x">>),
            Point(130000, <<"{", "\"", "a", "\"", ":", " ", "t", "r", "u", "e", "}">>) >>
    ELSE <<>>

\* client.get_timeseries_keys_v1: the keys a device has data for
get_timeseries_keys_v1(id) ==
    IF id = "id1" THEN <<"temp", "hum">>
    ELSE IF id = "id2" THEN <<"temp">>
    ELSE <<>>

\* client.get_tenant_device(device_name).id.id, or None after the ApiException
\* that get_device_id catches and logs
get_device_id(device_name) ==
    IF device_name \in DOMAIN DeviceIds THEN DeviceIds[device_name] ELSE None

\* whether a remote call about entity id can succeed: every call can fail, and
\* a call about the id None always does (the service knows no such entity)
RemoteOutcomes(id) == IF id = None THEN {FALSE} ELSE {TRUE, FALSE}

Take(s, n) == SubSeq(s, 1, IF Len(s) < n THEN Len(s) ELSE n)

InWindow(p, lo, hi) == lo <= p.ts /\ p.ts < hi

\* client.get_timeseries(entity_id, keys, start_ts, end_ts, limit, order_by='ASC'):
\* per requested key that has points in [start_ts, end_ts), its first `limit`
\* points in ascending ts, as <<key, points>> in the order of the request
RECURSIVE get_timeseries(_, _, _, _, _)
get_timeseries(id, ks, lo, hi, limit) ==
    IF ks = <<>> THEN <<>>
    ELSE LET pts == Take(SelectSeq(RemoteSeries(id, ks[1]), LAMBDA p : InWindow(p, lo, hi)), limit)
         IN  (IF pts = <<>> THEN <<>> ELSE << <<ks[1], pts>> >>)
             \o get_timeseries(id, Tail(ks), lo, hi, limit)

\* the server's clock during the run-th invocation of the tool, later than
\* every ts of the files
server_time(run) == 5000 * run

\* client.save_entity_telemetry(entity_id, 'ANY', body) on a store that keeps
\* one value per (entity, ts, key) and overwrites it: every key of
\* body["values"] is stored at body["ts"], or at the server's time when the
\* body carries no ts
save_entity_telemetry(st, id, body, now) ==
    LET ts == IF "ts" \in DOMAIN body THEN body.ts ELSE now
        written == { [id |-> id, ts |-> ts, key |-> body.values[i][1],
                      v |-> body.values[i][2]] : i \in 1..Len(body.values) }
    IN  { e \in st : ~\E w \in written :
                         w.id = e.id /\ w.ts = e.ts /\ w.key = e.key } \cup written

RECURSIVE response_points(_, _)
\* the points of a get_timeseries response, each with its entity and key
response_points(id, resp) ==
    IF resp = <<>> THEN <<>>
    ELSE [k \in 1..Len(resp[1][2]) |->
             [id |-> id, key |-> resp[1][1], ts |-> resp[1][2][k].ts,
              value |-> resp[1][2][k].value]]
         \o response_points(id, Tail(resp))

(***************************************************************************)
(* The CSV file                                                            *)
(***************************************************************************)
Header == <<"deviceId", "key", "ts", "value", "type">>

NoFile == [exists |-> FALSE, header |-> <<>>, rows |-> <<>>]

Row(id, key, ts, value, type) ==
    [deviceId |-> id, key |-> key, ts |-> ts, value |-> value, type |-> type]

\* writer.writerow([device_id, key, ts, value, value_type]) for one data point
export_row(id, key, p) ==
    Row(IF id = None THEN "" ELSE id, key, csv_cell(PyInt(p.ts)),
        csv_cell(infer_type_and_convert(p.value).v),
        infer_type_and_convert(p.value).tag)

RECURSIVE key_rows(_, _, _)
key_rows(id, key, pts) ==
    IF pts = <<>> THEN <<>>
    ELSE <<export_row(id, key, pts[1])>> \o key_rows(id, key, Tail(pts))

\* only the first key of a response written
response_rows_first_key(id, resp) ==
    IF resp = <<>> THEN <<>> ELSE key_rows(id, resp[1][1], resp[1][2])

RECURSIVE response_rows(_, _)
\* the rows written for one response: key by key, each key's points in the
\* order returned
response_rows(id, resp) ==
    IF resp = <<>> THEN <<>>
    ELSE key_rows(id, resp[1][1], resp[1][2]) \o response_rows(id, Tail(resp))

(***************************************************************************)
(* Retry policy and window arithmetic                                      *)
(***************************************************************************)
\* @retry(stop=stop_after_attempt(3), wait=wait_fixed(2)) on fetch_timeseries
fetch_stop_after_attempt == 3
fetch_wait_fixed == 2
\* the same decorator on save_telemetry
save_stop_after_attempt == 3
save_wait_fixed == 2

\* a stop condition that is off by one: a fourth attempt is made
stop_retrying_late(n, max_attempt_number) == n > max_attempt_number

\* tenacity's stop condition after attempt number n has failed
stop_retrying(n, max_attempt_number) == n >= max_attempt_number

time_limit_ms(time_limit) == time_limit * 60 * 1000

Min(a, b) == IF a < b THEN a ELSE b

\* current_end_ts = min(current_start_ts + time_limit_ms, end_ts)
window_end(start, limit_ms, end) == Min(start + limit_ms, end)

(***************************************************************************)
(* State                                                                   *)
(***************************************************************************)
VARIABLES
    pc,                \* position of the run
    args,              \* the parsed command line
    input,             \* the CSV file import reads
    file,              \* the CSV file export writes
    keys,              \* export_timeseries: the key list (<<>>: none yet)
    device_idx,        \* export_timeseries: position in device_names.split(',')
    device_id,         \* export_timeseries: id of the current device, or None
    current_start_ts,  \* export_timeseries: start of the current window
    current_end_ts,    \* export_timeseries: end of the current window
    window_no,         \* windows entered so far for the current device
    attempt,           \* failed attempts of the retried call in progress
    waited,            \* time slept between the attempts of that call
    telemetry_data,    \* import_timeseries: per entity, its points in file order
    row_idx,           \* import_timeseries: next row of the reader
    ent_idx,           \* import_timeseries: entity being replayed
    pt_idx,            \* import_timeseries: point being replayed
    counter,           \* import_timeseries: points saved for the entity
    calls,             \* history: the remote calls made, one entry per unit
    abort_from,        \* history: the position at which the run was cut short
    codec,             \* the codec pipeline applied to one text
    store,             \* the remote store written by save_entity_telemetry
    run_no,            \* which invocation of the tool is running
    first_store,       \* history: the store as the first invocation left it
    fetched            \* history: the points the fetches have returned

vars == <<pc, args, input, file, keys, device_idx, device_id, current_start_ts,
          current_end_ts, window_no, attempt, waited, telemetry_data, row_idx,
          ent_idx, pt_idx, counter, calls, abort_from, codec, store, run_no,
          first_store, fetched>>

storeVars == <<store, run_no, first_store>>

exportVars == <<file, keys, device_idx, device_id, current_start_ts,
                current_end_ts, window_no>>

importVars == <<telemetry_data, row_idx, ent_idx, pt_idx, counter>>

NoBody == [ts |-> 0, values |-> <<>>]

NoFirstStore == [taken |-> FALSE, store |-> {}, clean |-> FALSE]

\* one unit of remote work: n invocations, ok the outcome of the last one
Call(op, dev, idx, lo, hi, n, ok, rows, slept, body) ==
    [op |-> op, dev |-> dev, idx |-> idx, lo |-> lo, hi |-> hi, n |-> n,
     ok |-> ok, rows |-> rows, waited |-> slept, body |-> body]

Stopped == {"aborted", "crashed"}

\* where the run was cut short, once the next position is a stopped one
AbortFrom(next) == IF next \in Stopped THEN pc ELSE abort_from

IdleCodec == [stage |-> "idle", text |-> <<>>, v |-> PyNone, tag |-> "",
              cell |-> <<>>, res |-> "", out |-> PyNone]

(***************************************************************************)
(* Inputs                                                                  *)
(***************************************************************************)
DeviceLists == { <<"sensor1">>, <<"ghost", "sensor1">>, <<"sensor1", "sensor2">>,
                 <<"blank", "sensor2">>, <<"sensor1", "sensor1">> }

KeyLists == { <<>>, <<"temp">>, <<"temp", "hum">> }

\* three devices without a key list, the first of them without keys
ThreeDevices ==
    [action |-> "export", startTs |-> 60000, endTs |-> 150000,
     deviceNames |-> <<"blank", "sensor2", "sensor1">>, keys |-> <<>>,
     chunkLimit |-> 2, timeLimit |-> 2]

ExportArgs ==
    [action : {"export"}, startTs : {0, 60000}, endTs : {30000, 150000},
     deviceNames : DeviceLists, keys : KeyLists, chunkLimit : {1, 2},
     timeLimit : {-1, 0, 1, 2}]
    \cup {ThreeDevices}

\* an import run: the export options keep their argparse defaults
ImportArgs ==
    [action |-> "import", startTs |-> 0, endTs |-> 0, deviceNames |-> <<>>,
     keys |-> <<>>, chunkLimit |-> 1024, timeLimit |-> 60]

RowPool ==
    { Row("dev1", "temp", <<"1", "0", "0", "0">>, <<"2", "3", ".", "5">>, "double"),
      Row("dev1", "cfg", <<"1", "0", "0", "0">>, <<"{", "'", "a", "'", ":", " ", "1", "}">>, "json"),
      Row("dev1", "cfg", <<"2", "0", "0", "0">>, <<"n", "o", "t", "-", "j", "s", "o", "n">>, "json"),
      Row("dev2", "on", <<"3", "0", "0", "0">>, <<"T", "r", "u", "e">>, "boolean"),
      Row("dev2", "temp", <<"a", "b", "c">>, <<"1">>, "int"),
      Row("dev1", "n", <<"4", "0", "0", "0">>, <<"x", "1">>, "int") }

InputFiles ==
    { [exists |-> TRUE, header |-> Header, rows |-> rs] :
        rs \in UNION { [1..n -> RowPool] : n \in 0..MaxRows } }

\* a process of the tool before main() runs
Start ==
    /\ pc = "login"
    /\ file = NoFile
    /\ keys = <<>>
    /\ device_idx = 0
    /\ device_id = None
    /\ current_start_ts = 0
    /\ current_end_ts = 0
    /\ window_no = 0
    /\ attempt = 0
    /\ waited = 0
    /\ telemetry_data = <<>>
    /\ row_idx = 0
    /\ ent_idx = 0
    /\ pt_idx = 0
    /\ counter = 0
    /\ calls = <<>>
    /\ abort_from = "none"
    /\ codec = IdleCodec
    /\ store = {}
    /\ run_no = 1
    /\ first_store = NoFirstStore
    /\ fetched = <<>>

Init ==
    /\ Start
    /\ \/ args \in ExportArgs /\ input = NoFile
       \/ args = ImportArgs /\ input \in InputFiles

(***************************************************************************)
(* main                                                                    *)
(***************************************************************************)
\* a login failure that is only logged, the run going on
after_login_ignored(ok) == "main"

\* main's try block: an ApiException out of client.login is logged and the
\* with block is left
after_login(ok) == IF ok THEN "main" ELSE "aborted"

Login ==
    /\ pc = "login"
    /\ \E ok \in BOOLEAN :
          /\ calls' = Append(calls, Call("login", "", 0, 0, 0, 1, ok, 0, 0, NoBody))
          /\ pc' = after_login(ok)
          /\ abort_from' = AbortFrom(after_login(ok))
    /\ UNCHANGED <<args, input, exportVars, attempt, waited, importVars, codec, storeVars,
                   fetched>>

\* export without startTs, endTs or deviceNames: logged, main returns
MissingArgs ==
    /\ pc = "main"
    /\ args.action = "export"
    /\ (args.startTs = 0 \/ args.endTs = 0 \/ args.deviceNames = <<>>)
    /\ pc' = "done"
    /\ UNCHANGED <<args, input, exportVars, attempt, waited, importVars, calls,
                   abort_from, codec, storeVars,
                   fetched>>

\* export_timeseries up to its device loop: the file is opened and the
\* header row written
StartExport ==
    /\ pc = "main"
    /\ args.action = "export"
    /\ ~(args.startTs = 0 \/ args.endTs = 0 \/ args.deviceNames = <<>>)
    /\ file' = [exists |-> TRUE, header |-> Header, rows |-> <<>>]
    /\ keys' = args.keys
    /\ device_idx' = 1
    /\ pc' = "device"
    /\ UNCHANGED <<args, input, device_id, current_start_ts, current_end_ts,
                   window_no, attempt, waited, importVars, calls, abort_from, codec, storeVars,
                   fetched>>

\* import_timeseries up to its reader loop
StartImport ==
    /\ pc = "main"
    /\ args.action = "import"
    /\ telemetry_data' = <<>>
    /\ row_idx' = 1
    /\ pc' = "parse"
    /\ UNCHANGED <<args, input, exportVars, attempt, waited, ent_idx, pt_idx,
                   counter, calls, abort_from, codec, storeVars,
                   fetched>>

(***************************************************************************)
(* export_timeseries                                                       *)
(***************************************************************************)
\* the device loop is exhausted: the file is closed, main ends
ExportDone ==
    /\ pc = "device"
    /\ device_idx > Len(args.deviceNames)
    /\ pc' = "done"
    /\ UNCHANGED <<args, input, exportVars, attempt, waited, importVars, calls,
                   abort_from, codec, storeVars,
                   fetched>>

\* the keys looked up for every device
needs_discovery_always(ks) == TRUE

\* if not keys
needs_discovery(ks) == ks = <<>>

\* the next device name: get_device_id, then either key discovery or the
\* window loop
ResolveDevice ==
    /\ pc = "device"
    /\ device_idx <= Len(args.deviceNames)
    /\ LET name == args.deviceNames[device_idx]
           id == get_device_id(name)
       IN  /\ device_id' = id
           /\ calls' = Append(calls, Call("get_tenant_device", name, device_idx,
                                          0, 0, 1, id # None, 0, 0, NoBody))
    /\ window_no' = 0
    /\ IF needs_discovery(keys)
       THEN pc' = "get_keys" /\ UNCHANGED current_start_ts
       ELSE pc' = "window" /\ current_start_ts' = args.startTs
    /\ UNCHANGED <<args, input, file, keys, device_idx, current_end_ts, attempt,
                   waited, importVars, abort_from, codec, storeVars,
                   fetched>>

\* if not keys: keys = get_all_keys(client, 'DEVICE', device_id); an
\* ApiException here is caught only by main
GetAllKeys ==
    /\ pc = "get_keys"
    /\ \E ok \in RemoteOutcomes(device_id) :
          /\ calls' = Append(calls, Call("get_timeseries_keys", device_id, device_idx,
                                         0, 0, 1, ok, 0, 0, NoBody))
          /\ IF ok
             THEN /\ keys' = get_timeseries_keys_v1(device_id)
                  /\ current_start_ts' = args.startTs
                  /\ pc' = "window"
                  /\ UNCHANGED abort_from
             ELSE /\ pc' = "aborted"
                  /\ abort_from' = pc
                  /\ UNCHANGED <<keys, current_start_ts>>
    /\ UNCHANGED <<args, input, file, device_idx, device_id, current_end_ts,
                   window_no, attempt, waited, importVars, codec, storeVars,
                   fetched>>

\* while current_start_ts < end_ts: the next window is entered
EnterWindow ==
    /\ pc = "window"
    /\ current_start_ts < args.endTs
    /\ window_no < MaxWindows
    /\ current_end_ts' = window_end(current_start_ts, time_limit_ms(args.timeLimit),
                                   args.endTs)
    /\ window_no' = window_no + 1
    /\ attempt' = 0
    /\ waited' = 0
    /\ pc' = "fetch"
    /\ UNCHANGED <<args, input, file, keys, device_idx, device_id, current_start_ts,
                   importVars, calls, abort_from, codec, storeVars,
                   fetched>>

\* the window loop ends: on to the next device name
DeviceFinished ==
    /\ pc = "window"
    /\ ~(current_start_ts < args.endTs)
    /\ device_idx' = device_idx + 1
    /\ pc' = "device"
    /\ UNCHANGED <<args, input, file, keys, device_id, current_start_ts,
                   current_end_ts, window_no, attempt, waited, importVars, calls,
                   abort_from, codec, storeVars,
                   fetched>>

\* the window handed to fetch_timeseries
fetch_window == <<current_start_ts, current_end_ts>>

\* the window start left where it was
next_start_stuck(start, end) == start

\* current_start_ts = current_end_ts
next_start(start, end) == end

\* the fetch error raised again out of export_timeseries
after_fetch_error_reraise == "aborted"

\* except Exception around the fetch: logged, the loop goes on
after_fetch_error == "window"

\* a row written for the failed window
file_after_fetch_error_marked(f) ==
    [f EXCEPT !.rows = Append(@, Row("", "", <<>>, <<>>, "error"))]

\* the handler only logs: the file stays as it is
file_after_fetch_error(f) == f

FetchCall(n, ok, rows) ==
    Call("get_timeseries", device_id, device_idx, fetch_window[1], fetch_window[2],
         n, ok, rows, waited, NoBody)

\* an attempt of fetch_timeseries succeeds: every returned point is written
FetchOk ==
    /\ pc = "fetch"
    /\ TRUE \in RemoteOutcomes(device_id)
    /\ LET resp == get_timeseries(device_id, keys, fetch_window[1], fetch_window[2],
                                  args.chunkLimit)
           rows == response_rows(device_id, resp)
       IN  /\ file' = [file EXCEPT !.rows = @ \o rows]
           /\ calls' = Append(calls, FetchCall(attempt + 1, TRUE, Len(rows)))
           /\ fetched' = fetched \o response_points(device_id, resp)
    /\ current_start_ts' = next_start(current_start_ts, current_end_ts)
    /\ pc' = "window"
    /\ UNCHANGED <<args, input, keys, device_idx, device_id, current_end_ts,
                   window_no, attempt, waited, importVars, abort_from, codec,
                   storeVars>>

\* an attempt fails and tenacity sleeps before the next one
FetchRetry ==
    /\ pc = "fetch"
    /\ ~stop_retrying(attempt + 1, fetch_stop_after_attempt)
    /\ attempt' = attempt + 1
    /\ waited' = waited + fetch_wait_fixed
    /\ UNCHANGED <<pc, args, input, exportVars, importVars, calls, abort_from, codec, storeVars,
                   fetched>>

\* the last attempt fails: the error reaches export_timeseries, which logs it
FetchGiveUp ==
    /\ pc = "fetch"
    /\ stop_retrying(attempt + 1, fetch_stop_after_attempt)
    /\ calls' = Append(calls, FetchCall(attempt + 1, FALSE, 0))
    /\ current_start_ts' = next_start(current_start_ts, current_end_ts)
    /\ pc' = after_fetch_error
    /\ abort_from' = AbortFrom(after_fetch_error)
    /\ file' = file_after_fetch_error(file)
    /\ UNCHANGED <<args, input, keys, device_idx, device_id, current_end_ts,
                   window_no, attempt, waited, importVars, codec, storeVars,
                   fetched>>

(***************************************************************************)
(* import_timeseries                                                       *)
(***************************************************************************)
\* if device_id not in telemetry_data: telemetry_data[device_id] = []
ensure_entity(td, id) ==
    IF \E i \in 1..Len(td) : td[i].id = id THEN td
    ELSE Append(td, [id |-> id, points |-> <<>>])

\* {"ts": ts, "values": {key: value_converted}}
time_point(ts, key, value_converted) ==
    [ts |-> ts, values |-> << <<key, value_converted>> >>]

\* a record put in front of the entity's earlier ones
append_point_front(td, id, p) ==
    [i \in 1..Len(td) |->
        IF td[i].id = id THEN [td[i] EXCEPT !.points = <<p>> \o @] ELSE td[i]]

\* a record merged into the entity's time-point of the same ts, if it has one
append_point_merged(td, id, p) ==
    [i \in 1..Len(td) |->
        IF td[i].id # id THEN td[i]
        ELSE IF \E k \in 1..Len(td[i].points) : td[i].points[k].ts = p.ts
        THEN [td[i] EXCEPT !.points =
                 [k \in 1..Len(@) |->
                     IF @[k].ts = p.ts
                     THEN [@[k] EXCEPT !.values = dict_put(@, p.values[1][1], p.values[1][2])]
                     ELSE @[k]]]
        ELSE [td[i] EXCEPT !.points = Append(@, p)]]

\* telemetry_data[device_id].append(...)
append_point(td, id, p) ==
    [i \in 1..Len(td) |->
        IF td[i].id = id THEN [td[i] EXCEPT !.points = Append(@, p)] ELSE td[i]]

\* one row of the reader: parsed, converted and appended to its entity; a
\* ValueError out of int(row['ts']), int(value) or float(value) is caught
\* nowhere and ends the process
ParseRow ==
    /\ pc = "parse"
    /\ row_idx <= Len(input.rows)
    /\ LET row == input.rows[row_idx]
           ts == py_int(row.ts)
           cv == convert_value(row.value, row.type)
           td == ensure_entity(telemetry_data, row.deviceId)
       IN  IF ~ts.ok
           THEN /\ pc' = "crashed"
                /\ abort_from' = pc
                /\ UNCHANGED <<telemetry_data, row_idx>>
           ELSE IF cv.res = "raise"
           THEN /\ pc' = "crashed"
                /\ abort_from' = pc
                /\ telemetry_data' = td
                /\ UNCHANGED row_idx
           ELSE /\ telemetry_data' =
                      IF cv.res = "drop" THEN td
                      ELSE append_point(td, row.deviceId,
                                        time_point(ts.v.n, row.key, cv.v))
                /\ row_idx' = row_idx + 1
                /\ UNCHANGED <<pc, abort_from>>
    /\ UNCHANGED <<args, input, exportVars, attempt, waited, ent_idx, pt_idx,
                   counter, calls, codec, storeVars,
                   fetched>>

\* the reader is exhausted: on to the replay loop
ParseDone ==
    /\ pc = "parse"
    /\ row_idx > Len(input.rows)
    /\ ent_idx' = 1
    /\ pc' = "entity"
    /\ UNCHANGED <<args, input, exportVars, attempt, waited, telemetry_data,
                   row_idx, pt_idx, counter, calls, abort_from, codec, storeVars,
                   fetched>>

\* for device_id, data_points in telemetry_data.items()
NextEntity ==
    /\ pc = "entity"
    /\ ent_idx <= Len(telemetry_data)
    /\ pt_idx' = 1
    /\ counter' = 0
    /\ pc' = "point"
    /\ UNCHANGED <<args, input, exportVars, attempt, waited, telemetry_data,
                   row_idx, ent_idx, calls, abort_from, codec, storeVars,
                   fetched>>

ImportDone ==
    /\ pc = "entity"
    /\ ent_idx > Len(telemetry_data)
    /\ pc' = "done"
    /\ UNCHANGED <<args, input, exportVars, attempt, waited, importVars, calls,
                   abort_from, codec, storeVars,
                   fetched>>

\* for data_point in data_points: the body is built
NextPoint ==
    /\ pc = "point"
    /\ pt_idx <= Len(telemetry_data[ent_idx].points)
    /\ attempt' = 0
    /\ waited' = 0
    /\ pc' = "save"
    /\ UNCHANGED <<args, input, exportVars, importVars, calls, abort_from, codec, storeVars,
                   fetched>>

\* the entity's points are exhausted
EntityFinished ==
    /\ pc = "point"
    /\ pt_idx > Len(telemetry_data[ent_idx].points)
    /\ ent_idx' = ent_idx + 1
    /\ pc' = "entity"
    /\ UNCHANGED <<args, input, exportVars, attempt, waited, telemetry_data,
                   row_idx, pt_idx, counter, calls, abort_from, codec, storeVars,
                   fetched>>

\* the save error raised again out of import_timeseries
after_save_error_reraise == "aborted"

\* except Exception around save_telemetry: logged, continue with the next point
after_save_error == "point"

\* a body that leaves the ts out, so that the server stamps the values
save_body_without_ts(data_point) == [values |-> data_point["values"]]

\* body = {"ts": data_point["ts"], "values": data_point["values"]}
save_body(data_point) == [ts |-> data_point["ts"], values |-> data_point["values"]]

SaveCall(n, ok) ==
    Call("save_entity_telemetry", telemetry_data[ent_idx].id, ent_idx, 0, 0, n, ok,
         0, waited, save_body(telemetry_data[ent_idx].points[pt_idx]))

\* an attempt of save_telemetry succeeds
SaveOk ==
    /\ pc = "save"
    /\ calls' = Append(calls, SaveCall(attempt + 1, TRUE))
    /\ store' = save_entity_telemetry(store, telemetry_data[ent_idx].id,
                                      save_body(telemetry_data[ent_idx].points[pt_idx]),
                                      server_time(run_no))
    /\ counter' = counter + 1
    /\ pt_idx' = pt_idx + 1
    /\ pc' = "point"
    /\ UNCHANGED <<args, input, exportVars, attempt, waited, telemetry_data,
                   row_idx, ent_idx, abort_from, codec, run_no, first_store,
                   fetched>>

\* an attempt fails and tenacity sleeps before the next one
SaveRetry ==
    /\ pc = "save"
    /\ ~stop_retrying(attempt + 1, save_stop_after_attempt)
    /\ attempt' = attempt + 1
    /\ waited' = waited + save_wait_fixed
    /\ UNCHANGED <<pc, args, input, exportVars, importVars, calls, abort_from, codec, storeVars,
                   fetched>>

\* the last attempt fails: the error reaches import_timeseries, which logs it
SaveGiveUp ==
    /\ pc = "save"
    /\ stop_retrying(attempt + 1, save_stop_after_attempt)
    /\ calls' = Append(calls, SaveCall(attempt + 1, FALSE))
    /\ pt_idx' = pt_idx + 1
    /\ pc' = after_save_error
    /\ abort_from' = AbortFrom(after_save_error)
    /\ UNCHANGED <<args, input, exportVars, attempt, waited, telemetry_data,
                   row_idx, ent_idx, counter, codec, storeVars,
                   fetched>>

Next ==
    \/ Login
    \/ MissingArgs
    \/ StartExport
    \/ StartImport
    \/ ExportDone
    \/ ResolveDevice
    \/ GetAllKeys
    \/ EnterWindow
    \/ DeviceFinished
    \/ FetchOk
    \/ FetchRetry
    \/ FetchGiveUp
    \/ ParseRow
    \/ ParseDone
    \/ NextEntity
    \/ ImportDone
    \/ NextPoint
    \/ EntityFinished
    \/ SaveOk
    \/ SaveRetry
    \/ SaveGiveUp

Spec == Init /\ [][Next]_vars

(***************************************************************************)
(* The import run twice on one file                                        *)
(***************************************************************************)
\* two rows of one (deviceId, ts, key) with different values, a row of another
\* entity and a row that is dropped
ReplayPool ==
    { Row("dev1", "temp", <<"1", "0", "0", "0">>, <<"2", "3", ".", "5">>, "double"),
      Row("dev1", "temp", <<"1", "0", "0", "0">>, <<"7">>, "int"),
      Row("dev2", "on", <<"3", "0", "0", "0">>, <<"T", "r", "u", "e">>, "boolean"),
      Row("dev1", "cfg", <<"2", "0", "0", "0">>, <<"n", "o", "t", "-", "j", "s", "o", "n">>, "json") }

ReplayFiles ==
    { [exists |-> TRUE, header |-> Header, rows |-> rs] :
        rs \in UNION { [1..n -> ReplayPool] : n \in 0..MaxReplayRows } }

InitReplay ==
    /\ Start
    /\ args = ImportArgs
    /\ input \in ReplayFiles

\* the tool is started again on the same file once its first import has ended:
\* a new process, the remote store as the first one left it
Rerun ==
    /\ pc = "done"
    /\ args.action = "import"
    /\ run_no = 1
    /\ run_no' = 2
    /\ first_store' = [taken |-> TRUE, store |-> store,
                       clean |-> \A i \in 1..Len(calls) : calls[i].ok]
    /\ pc' = "login"
    /\ attempt' = 0
    /\ waited' = 0
    /\ telemetry_data' = <<>>
    /\ row_idx' = 0
    /\ ent_idx' = 0
    /\ pt_idx' = 0
    /\ counter' = 0
    /\ calls' = <<>>
    /\ UNCHANGED <<args, input, exportVars, abort_from, codec, store, fetched>>

NextReplay ==
    \/ Login
    \/ StartImport
    \/ ParseRow
    \/ ParseDone
    \/ NextEntity
    \/ ImportDone
    \/ NextPoint
    \/ EntityFinished
    \/ SaveOk
    \/ SaveRetry
    \/ SaveGiveUp
    \/ Rerun

SpecReplay == InitReplay /\ [][NextReplay]_vars

(***************************************************************************)
(* An export whose file is imported, no fetch and no write failing         *)
(***************************************************************************)
InitRoundTrip ==
    /\ Start
    /\ args \in ExportArgs
    /\ input = NoFile

\* the tool is started again with --action import on the file the export has
\* written: a new process, the store it writes to fresh
Reimport ==
    /\ pc = "done"
    /\ args.action = "export"
    /\ file.exists
    /\ run_no = 1
    /\ run_no' = 2
    /\ args' = ImportArgs
    /\ input' = file
    /\ pc' = "login"
    /\ keys' = <<>>
    /\ device_idx' = 0
    /\ device_id' = None
    /\ current_start_ts' = 0
    /\ current_end_ts' = 0
    /\ window_no' = 0
    /\ attempt' = 0
    /\ waited' = 0
    /\ calls' = <<>>
    /\ UNCHANGED <<file, importVars, abort_from, codec, store, first_store, fetched>>

\* the steps of both paths in which every fetch and every write succeeds at
\* its first attempt
NextRoundTrip ==
    \/ Login
    \/ MissingArgs
    \/ StartExport
    \/ ExportDone
    \/ ResolveDevice
    \/ GetAllKeys
    \/ EnterWindow
    \/ DeviceFinished
    \/ FetchOk
    \/ Reimport
    \/ StartImport
    \/ ParseRow
    \/ ParseDone
    \/ NextEntity
    \/ ImportDone
    \/ NextPoint
    \/ EntityFinished
    \/ SaveOk

SpecRoundTrip == InitRoundTrip /\ [][NextRoundTrip]_vars

(***************************************************************************)
(* The codec applied to one text: infer, write the cell, decode it         *)
(***************************************************************************)
Alphabet == {"1", "0", "-", ".", "n", "a", "'", "[", "]", " "}

LongTexts ==
    { <<"t", "r", "u", "E">>, <<"F", "a", "l", "s", "e">>, <<" ", "t", "r", "u", "e">>,
      <<"n", "u", "l", "l">>, <<"\"", "x", "\"">>, <<"-", "0", ".", "0">>,
      <<"{", "'", "a", "'", ":", " ", "1", "}">>,
      <<"{", "\"", "a", "\"", ":", " ", "t", "r", "u", "e", "}">>,
      <<"{", "\"", "a", "\"", ":", " ", "\"", "b", "\"", "}">>,
      <<"[", "1", ",", " ", "2", ".", "5", "]">>,
      <<"[", "n", "u", "l", "l", "]">>,
      <<"h", "e", "l", "l", "o">> }

Texts == UNION { [1..n -> Alphabet] : n \in 0..MaxTextLen } \cup LongTexts

InitCodec ==
    /\ pc = "codec"
    /\ args = ImportArgs
    /\ input = NoFile
    /\ file = NoFile
    /\ keys = <<>>
    /\ device_idx = 0
    /\ device_id = None
    /\ current_start_ts = 0
    /\ current_end_ts = 0
    /\ window_no = 0
    /\ attempt = 0
    /\ waited = 0
    /\ telemetry_data = <<>>
    /\ row_idx = 0
    /\ ent_idx = 0
    /\ pt_idx = 0
    /\ counter = 0
    /\ calls = <<>>
    /\ abort_from = "none"
    /\ store = {}
    /\ run_no = 1
    /\ first_store = NoFirstStore
    /\ fetched = <<>>
    /\ \E t \in Texts : codec = [IdleCodec EXCEPT !.stage = "text", !.text = t]

notCodec == <<pc, args, input, file, keys, device_idx, device_id, current_start_ts,
              current_end_ts, window_no, attempt, waited, telemetry_data, row_idx,
              ent_idx, pt_idx, counter, calls, abort_from, store, run_no,
              first_store, fetched>>

\* value, value_type = infer_type_and_convert(raw_value)
CodecInfer ==
    /\ pc = "codec"
    /\ codec.stage = "text"
    /\ codec' = [codec EXCEPT !.stage = "inferred",
                              !.v = infer_type_and_convert(codec.text).v,
                              !.tag = infer_type_and_convert(codec.text).tag]
    /\ UNCHANGED notCodec

\* writer.writerow([..., value, value_type]): the cell of the value
CodecWrite ==
    /\ pc = "codec"
    /\ codec.stage = "inferred"
    /\ codec' = [codec EXCEPT !.stage = "written", !.cell = csv_cell(codec.v)]
    /\ UNCHANGED notCodec

\* the import side's conversion of that cell under the written tag
CodecDecode ==
    /\ pc = "codec"
    /\ codec.stage = "written"
    /\ codec' = [codec EXCEPT !.stage = "decoded",
                              !.res = convert_value(codec.cell, codec.tag).res,
                              !.out = convert_value(codec.cell, codec.tag).v]
    /\ UNCHANGED notCodec

NextCodec == CodecInfer \/ CodecWrite \/ CodecDecode

SpecCodec == InitCodec /\ [][NextCodec]_vars

(***************************************************************************)
(* Properties                                                              *)
(***************************************************************************)
IsExport == args.action = "export"
IsImport == args.action = "import"

FetchIdx == {i \in 1..Len(calls) : calls[i].op = "get_timeseries"}
SaveIdx == {i \in 1..Len(calls) : calls[i].op = "save_entity_telemetry"}

\* the windows device number d has iterated: those of its finished fetch
\* units, then the one in progress
WindowsOf(d) ==
    SelectSeq([i \in 1..Len(calls) |-> [op |-> calls[i].op, idx |-> calls[i].idx,
                                        lo |-> calls[i].lo, hi |-> calls[i].hi]],
              LAMBDA c : c.op = "get_timeseries" /\ c.idx = d)
    \o (IF pc = "fetch" /\ device_idx = d
        THEN <<[op |-> "get_timeseries", idx |-> d, lo |-> current_start_ts,
                hi |-> current_end_ts]>>
        ELSE <<>>)

\* device number d has left its window loop
Finished(d) == pc = "done" \/ device_idx > d

\* the windows of device d partition [startTs, endTs) as far as they go
Partition(d) ==
    LET ws == WindowsOf(d)
    IN  /\ ws # <<>> => ws[1].lo = args.startTs
        /\ \A i \in 1..Len(ws) :
              /\ ws[i].lo < ws[i].hi
              /\ ws[i].hi <= args.endTs
              /\ i > 1 => ws[i].lo = ws[i - 1].hi
        /\ Finished(d) => ws # <<>> /\ ws[Len(ws)].hi = args.endTs

\* C1: for any start < end and any window size, the windows one device
\* iterates are contiguous, non-overlapping, cover exactly [start, end), and
\* the last one ends at end.
C1_WindowsPartitionRange ==
    (IsExport /\ file.exists /\ args.startTs < args.endTs)
        => \A d \in 1..Len(args.deviceNames) : Partition(d)

\* C2: a unit of work (one window fetch, one time-point write) invokes the
\* remote call until its first success or its 3rd attempt: never a 4th
\* invocation, a unit that failed was invoked exactly 3 times before its error
\* reached the caller, and 2 time units were slept between attempts.
C2_RetryAtMostThree ==
    /\ pc \in {"fetch", "save"} => attempt + 1 <= 3
    /\ \A i \in FetchIdx \cup SaveIdx :
          /\ calls[i].n >= 1 /\ calls[i].n <= 3
          /\ ~calls[i].ok => calls[i].n = 3
          /\ calls[i].waited = 2 * (calls[i].n - 1)

C2_Witness ==
    /\ \E i \in FetchIdx \cup SaveIdx : ~calls[i].ok /\ calls[i].n = 3
    /\ \E i \in FetchIdx \cup SaveIdx : calls[i].ok /\ calls[i].n = 2
    /\ \E i \in FetchIdx \cup SaveIdx : calls[i].ok /\ calls[i].n = 3

\* the fetch units of device d, failed or not, chain from startTs to endTs
ChainCovers(d) ==
    LET ws == WindowsOf(d)
    IN  IF args.startTs < args.endTs
        THEN /\ ws # <<>>
             /\ ws[1].lo = args.startTs
             /\ ws[Len(ws)].hi = args.endTs
             /\ \A i \in 2..Len(ws) : ws[i].lo = ws[i - 1].hi
        ELSE ws = <<>>

\* C3: a window whose fetch fails after all retries is skipped without
\* aborting the run: the run is never cut short at a fetch, and in a finished
\* export every device's fetch units, the failed ones included, chain over the
\* whole range, so every window after a failed one was still fetched.
C3_FetchFailureSkipsWindow ==
    /\ abort_from # "fetch"
    /\ (IsExport /\ file.exists /\ pc = "done")
          => \A d \in 1..Len(args.deviceNames) : ChainCovers(d)

C3_Witness ==
    /\ IsExport /\ pc = "done"
    /\ \E i \in FetchIdx :
          /\ ~calls[i].ok
          /\ \E j \in FetchIdx : j > i /\ calls[j].idx = calls[i].idx
                                  /\ calls[j].lo = calls[i].hi
          /\ \E j \in FetchIdx : j > i /\ calls[j].idx > calls[i].idx /\ calls[j].ok

RECURSIVE Flatten(_)
\* the time-points of telemetry_data in replay order, each with its entity
Flatten(td) ==
    IF td = <<>> THEN <<>>
    ELSE [k \in 1..Len(td[1].points) |-> [id |-> td[1].id, p |-> td[1].points[k]]]
         \o Flatten(Tail(td))

\* the write units made so far, in order
SaveUnits ==
    LET cs == SelectSeq(calls, LAMBDA c : c.op = "save_entity_telemetry")
    IN  [k \in 1..Len(cs) |-> [id |-> cs[k].dev, p |-> cs[k].body]]

\* C4: a time-point whose write fails after all retries is skipped: the run is
\* never cut short at a write, and a finished import has attempted one write
\* unit for every time-point of every entity, in order.
C4_SaveFailureSkipsPoint ==
    /\ abort_from # "save"
    /\ (IsImport /\ pc = "done") => SaveUnits = Flatten(telemetry_data)

C4_Witness ==
    /\ IsImport /\ pc = "done"
    /\ \E i \in SaveIdx :
          /\ ~calls[i].ok
          /\ \E j \in SaveIdx : j > i /\ calls[j].idx = calls[i].idx
          /\ \E j \in SaveIdx : j > i /\ calls[j].idx > calls[i].idx

\* C5: a device whose name does not resolve is skipped: no key discovery and
\* no fetch is issued for it and no row is written for it.
C5_UnresolvedDeviceSkipped ==
    /\ \A i \in 1..Len(calls) :
          calls[i].op \in {"get_timeseries_keys", "get_timeseries"} => calls[i].dev # None
    /\ \A r \in 1..Len(file.rows) : file.rows[r].deviceId # ""

\* a row tagged json whose value does not parse
JsonFails(row) == row.type = "json" /\ ~json_loads(replace_quotes(row.value)).ok

\* a row on which int() or float() raises ValueError
RaisesValueError(row) ==
    \/ ~py_int(row.ts).ok
    \/ row.type = "int" /\ ~py_int(row.value).ok
    \/ row.type = "double" /\ ~py_float(row.value).ok

RECURSIVE FirstIds(_, _)
\* the distinct deviceIds of the rows, in order of first appearance
FirstIds(rows, seen) ==
    IF rows = <<>> THEN <<>>
    ELSE IF rows[1].deviceId \in seen THEN FirstIds(Tail(rows), seen)
    ELSE <<rows[1].deviceId>> \o FirstIds(Tail(rows), seen \cup {rows[1].deviceId})

RowPoint(row) ==
    [id |-> row.deviceId,
     p |-> time_point(py_int(row.ts).v.n, row.key,
                      decode_with(row.value, row.type, "drop").v)]

RECURSIVE ReplayOf(_, _)
\* what the rows ask to replay: entity by entity, each entity's rows in file
\* order, the rows whose json does not parse left out
ReplayOf(ids, rows) ==
    IF ids = <<>> THEN <<>>
    ELSE LET mine == SelectSeq(rows, LAMBDA r : r.deviceId = ids[1] /\ ~JsonFails(r))
         IN  [k \in 1..Len(mine) |-> RowPoint(mine[k])] \o ReplayOf(Tail(ids), rows)

\* C6: a record tagged json whose value fails to parse is dropped and the rest
\* of the stream continues: the reader loop is cut short only by a row on
\* which int() or float() raises, and a finished import has attempted a write
\* for exactly the records whose json parses, those before and after a
\* dropped one included.
C6_BadJsonRecordDropped ==
    /\ abort_from = "parse" => \E r \in 1..Len(input.rows) : RaisesValueError(input.rows[r])
    /\ (IsImport /\ pc = "done")
          => SaveUnits = ReplayOf(FirstIds(input.rows, {}), input.rows)

C6_Witness ==
    /\ IsImport /\ pc = "done"
    /\ Len(input.rows) = 3
    /\ JsonFails(input.rows[2])
    /\ ~JsonFails(input.rows[1]) /\ ~JsonFails(input.rows[3])
    /\ Len(SaveUnits) = 2

\* C7: no exception other than an authentication failure crosses a device,
\* window or record boundary: a run is cut short only at login.
C7_OnlyLoginAborts == abort_from \in {"none", "login"}

\* C8: codec round trip: decoding the cell written for infer(t).value under
\* infer(t).tag yields a value equal to infer(t).value, for every text t.
C8_CodecRoundTrip ==
    codec.stage = "decoded" => codec.res = "value" /\ PyEq(codec.out, codec.v)

RECURSIVE RowPass(_)
\* for each data row of the file, the device-list position that wrote it
RowPass(cs) ==
    IF cs = <<>> THEN <<>>
    ELSE (IF cs[1].op = "get_timeseries" THEN [k \in 1..cs[1].rows |-> cs[1].idx]
          ELSE <<>>)
         \o RowPass(Tail(cs))

RowTs(r) == py_int(file.rows[r].ts).v.n

\* C9 as stated: within one device the rows appear in non-decreasing ts
\* order, whatever the number of keys.
C9_RowsAscendingPerDevice ==
    \A i, j \in 1..Len(file.rows) :
        (i < j /\ RowPass(calls)[i] = RowPass(calls)[j]) => RowTs(i) <= RowTs(j)

\* C9 as amended: within the rows written for one entry of the device list,
\* the rows of each key appear in non-decreasing ts order.
C9_RowsAscendingPerKey ==
    \A i, j \in 1..Len(file.rows) :
        (/\ i < j
         /\ RowPass(calls)[i] = RowPass(calls)[j]
         /\ file.rows[i].key = file.rows[j].key) => RowTs(i) <= RowTs(j)

C9_Witness ==
    /\ pc = "done"
    /\ \E i, j \in 1..Len(file.rows) :
          /\ i + 1 < j
          /\ RowPass(calls)[i] = RowPass(calls)[j]
          /\ file.rows[i].key = file.rows[j].key
          /\ RowTs(i) < RowTs(j)
          /\ file.rows[i + 1].key # file.rows[i].key

\* C10: when login fails the run is aborted: login was called once, and no
\* device resolution, key discovery, fetch, file write or telemetry write
\* follows.
C10_LoginFailureAborts ==
    /\ Cardinality({i \in 1..Len(calls) : calls[i].op = "login"}) <= 1
    /\ (calls # <<>> /\ ~calls[1].ok)
          => /\ pc = "aborted"
             /\ Len(calls) = 1
             /\ ~file.exists
             /\ telemetry_data = <<>>
             /\ row_idx = 0 /\ device_idx = 0

C10_Witness == pc = "aborted" /\ abort_from = "login" /\ calls[1].op = "login"

\* both invocations have ended and no write of either was skipped
BothRunsClean ==
    /\ run_no = 2 /\ pc = "done" /\ IsImport
    /\ first_store.clean
    /\ \A i \in 1..Len(calls) : calls[i].ok

SameValue(v, text) ==
    LET canon == infer_type_and_convert(text).v
    IN  v = canon \/ PyEq(v, canon)

\* the store holds exactly the fetched points
StoreIsFetched ==
    /\ \A k \in 1..Len(fetched) :
          \E e \in store : /\ e.id = fetched[k].id
                            /\ e.key = fetched[k].key
                            /\ e.ts = fetched[k].ts
                            /\ SameValue(e.v, fetched[k].value)
    /\ \A e \in store :
          \E k \in 1..Len(fetched) : /\ e.id = fetched[k].id
                                      /\ e.key = fetched[k].key
                                      /\ e.ts = fetched[k].ts

\* C12: when no remote call fails, importing the file an export has written
\* into a fresh store yields exactly the (entity, key, ts, value) points the
\* export fetched, values compared in canonical form.
C12_RoundTripStoresFetched ==
    (run_no = 2 /\ IsImport /\ pc = "done" /\ input = file) => StoreIsFetched

\* the key discoveries made so far, in order
Discoveries == SelectSeq(calls, LAMBDA c : c.op = "get_timeseries_keys")

\* an explicit key list is never looked up and is used unchanged
ExplicitKeysKept ==
    (IsExport /\ args.keys # <<>>)
        => /\ Discoveries = <<>>
           /\ file.exists => keys = args.keys

\* C13 as stated: an explicit key list is used unchanged and never looked up;
\* without one the keys are discovered exactly once in the run, for the first
\* device, and reused for every later device.
C13_KeysDiscoveredOnce ==
    /\ ExplicitKeysKept
    /\ (IsExport /\ args.keys = <<>>)
          => /\ Len(Discoveries) <= 1
             /\ \A k \in 1..Len(Discoveries) : Discoveries[k].idx = 1
             /\ (pc \in {"window", "fetch"} \/ device_idx > 1) => Len(Discoveries) = 1

\* C13, amended: an explicit key list is used unchanged and never looked up;
\* without one the keys are discovered for the first device and again for each
\* following device as long as every earlier discovery returned no key, and
\* the first non-empty list is reused unchanged for every later device.
C13_KeysDiscoveredUntilFound ==
    /\ ExplicitKeysKept
    /\ (IsExport /\ args.keys = <<>>)
          => /\ \A k \in 1..Len(Discoveries) :
                   /\ Discoveries[k].idx = k
                   /\ k < Len(Discoveries)
                         => /\ Discoveries[k].ok
                            /\ get_timeseries_keys_v1(Discoveries[k].dev) = <<>>
             /\ keys # <<>>
                   => /\ Discoveries # <<>>
                      /\ Discoveries[Len(Discoveries)].ok
                      /\ keys = get_timeseries_keys_v1(Discoveries[Len(Discoveries)].dev)
             /\ (pc \in {"window", "fetch"} /\ device_idx > Len(Discoveries))
                   => keys # <<>>
             /\ pc \in {"window", "fetch"} => Discoveries # <<>>

\* three devices without a key list: the first has no key, the second is
\* looked up too, and its keys are reused for the third, whose rows are written
C13_Witness ==
    /\ IsExport /\ pc = "done" /\ args.keys = <<>>
    /\ Len(args.deviceNames) = 3
    /\ Len(Discoveries) = 2
    /\ \E i \in FetchIdx : calls[i].idx = 3 /\ calls[i].ok /\ calls[i].rows > 0

\* the rows among the first n whose json does not parse
DroppedUpTo(n) == {r \in 1..n : JsonFails(input.rows[r])}

\* C14: every record that decodes becomes one time-point of its own with one
\* key, records of one (entityId, ts) included: the time-points held are the
\* records read less the dropped ones, and a finished import has attempted as
\* many write units as the file has records less the dropped ones, each unit
\* carrying one key.
C14_OneWritePerDecodedRecord ==
    /\ (IsImport /\ pc \in {"parse", "entity", "point", "save", "done"})
          => LET held == Flatten(telemetry_data)
             IN  /\ Len(held) = (row_idx - 1) - Cardinality(DroppedUpTo(row_idx - 1))
                 /\ \A k \in 1..Len(held) : Len(held[k].p.values) = 1
    /\ (IsImport /\ pc = "done")
          => LET units == SaveUnits
             IN  /\ Len(units)
                       = Len(input.rows) - Cardinality(DroppedUpTo(Len(input.rows)))
                 /\ \A k \in 1..Len(units) : Len(units[k].p.values) = 1

\* two records of one entity and one ts with different keys have been written
\* as two units
C14_Witness ==
    /\ IsImport /\ pc = "done"
    /\ Len(input.rows) >= 2
    /\ input.rows[1].deviceId = input.rows[2].deviceId
    /\ input.rows[1].ts = input.rows[2].ts
    /\ input.rows[1].key # input.rows[2].key
    /\ Len(SaveUnits) >= 2
    /\ SaveUnits[1].p.ts = SaveUnits[2].p.ts
    /\ SaveUnits[1].p.values # SaveUnits[2].p.values

\* every point fetched so far is a row of the file, in the order fetched
FetchedAreWritten ==
    /\ Len(file.rows) = Len(fetched)
    /\ \A k \in 1..Len(fetched) :
          /\ file.rows[k].deviceId = fetched[k].id
          /\ file.rows[k].key = fetched[k].key
          /\ file.rows[k].ts = NatToText(fetched[k].ts)

\* C15 as stated: records are transient on both paths: on export every point
\* fetched is written before the next window is fetched, and on import every
\* record parsed has been replayed before a later record is read.
C15_RecordsTransient ==
    /\ IsExport => FetchedAreWritten
    /\ (IsImport /\ pc = "parse") => Len(SaveUnits) = Len(Flatten(telemetry_data))

\* C15, amended: on export every point fetched is written before the next
\* window is fetched; on import the decoded records are held until the whole
\* file has been read, and no write is attempted before the last record is read.
C15_ExportTransientImportBatched ==
    /\ IsExport => FetchedAreWritten
    /\ IsImport
          => /\ SaveIdx # {} => row_idx > Len(input.rows)
             /\ pc = "parse"
                   => Len(Flatten(telemetry_data))
                         = (row_idx - 1) - Cardinality(DroppedUpTo(row_idx - 1))

\* the whole file of three records is held while the first of them is written
C15_Witness ==
    /\ IsImport /\ pc = "point"
    /\ Len(input.rows) = 3
    /\ row_idx = 4
    /\ Len(Flatten(telemetry_data)) = 3
    /\ Len(SaveUnits) = 1

\* the replay the file asks for: entities in order of first appearance, each
\* entity's records in file order
FileReplay == ReplayOf(FirstIds(input.rows, {}), input.rows)

\* C16: the writes are attempted one at a time in the order of the file's
\* replay: the units attempted so far are its first ones, so an entity's
\* writes follow the file order, all of them precede the next entity's, and
\* the entities come in order of first appearance; the write in progress is
\* the next unit of that order.
C16_ReplayOrder ==
    (IsImport /\ (SaveIdx # {} \/ pc = "save"))
        => LET replay == FileReplay
               units == SaveUnits
           IN  /\ Len(units) <= Len(replay)
               /\ units = SubSeq(replay, 1, Len(units))
               /\ pc = "save"
                     => /\ Len(units) < Len(replay)
                        /\ replay[Len(units) + 1]
                              = [id |-> telemetry_data[ent_idx].id,
                                 p |-> save_body(telemetry_data[ent_idx].points[pt_idx])]

\* a file whose second record is of another entity than its first and third:
\* the third record has been written before the second
C16_Witness ==
    /\ IsImport /\ pc = "done"
    /\ Len(input.rows) = 3
    /\ input.rows[1].deviceId # input.rows[2].deviceId
    /\ input.rows[3].deviceId = input.rows[1].deviceId
    /\ input.rows[3] # input.rows[1]
    /\ Len(SaveUnits) = 3
    /\ SaveUnits[2] = RowPoint(input.rows[3])
    /\ SaveUnits[3] = RowPoint(input.rows[2])

\* the rows that entry d of the device list has written for the point p of key
RowsOf(d, key, p) ==
    {r \in 1..Len(file.rows) :
        /\ RowPass(calls)[r] = d
        /\ file.rows[r].deviceId = get_device_id(args.deviceNames[d])
        /\ file.rows[r].key = key
        /\ file.rows[r].ts = NatToText(p.ts)}

\* C17: when no remote call fails, a finished export has written exactly one
\* row for every point the remote holds for a listed device under a requested
\* key with startTs <= ts < endTs, whatever the chunk limit and the window size.
C17_ExportComplete ==
    (IsExport /\ pc = "done" /\ file.exists /\ \A i \in 1..Len(calls) : calls[i].ok)
        => \A d \in 1..Len(args.deviceNames) :
              \A k \in 1..Len(keys) :
                 LET series == RemoteSeries(get_device_id(args.deviceNames[d]), keys[k])
                 IN  \A n \in 1..Len(series) :
                        InWindow(series[n], args.startTs, args.endTs)
                            => Cardinality(RowsOf(d, keys[k], series[n])) = 1

\* C18: whatever the time limit, the window loop of a device reaches a window
\* start equal to endTs after finitely many windows: every window iterated
\* moves the window start strictly forward and not beyond endTs, so the
\* distance to endTs shrinks with every window until the loop ends at endTs.
C18_WindowLoopTerminates ==
    [][(pc = "fetch" /\ pc' = "window")
          => /\ current_start_ts < current_start_ts'
             /\ current_start_ts' <= args.endTs]_vars

\* C19: a window whose fetch fails after all retries contributes no row and
\* leaves the rows already written untouched: the step that gives the window
\* up leaves the file as it was, and every other step keeps the rows written
\* and appends only rows of the window it has fetched.
C19_SkippedWindowKeepsRows ==
    [][IsExport
         => /\ (pc = "fetch" /\ pc' # "fetch" /\ ~calls'[Len(calls')].ok)
                  => file' = file
            /\ Len(file.rows) <= Len(file'.rows)
            /\ \A r \in 1..Len(file.rows) : file'.rows[r] = file.rows[r]
            /\ \A r \in (Len(file.rows) + 1)..Len(file'.rows) :
                  /\ pc = "fetch"
                  /\ file'.rows[r].deviceId = device_id
                  /\ current_start_ts <= py_int(file'.rows[r].ts).v.n
                  /\ py_int(file'.rows[r].ts).v.n < current_end_ts]_vars

\* rows were written, then a window that holds points was given up, then a
\* later window has appended its rows
C19_Witness ==
    /\ IsExport /\ pc = "done"
    /\ \E i, j, k \in FetchIdx :
          /\ i < j /\ j < k
          /\ calls[i].ok /\ calls[i].rows > 0
          /\ ~calls[j].ok
          /\ get_timeseries(calls[j].dev, keys, calls[j].lo, calls[j].hi,
                            args.chunkLimit) # <<>>
          /\ calls[k].ok /\ calls[k].rows > 0
          /\ Len(file.rows) >= calls[i].rows + calls[k].rows

====
